---------------------------- MODULE Spec2Model ----------------------------
(***************************************************************************)
(* A model of the Playwright test bot: train_model.py (status              *)
(* normalisation, the report walker, the attempt reconciler, the test      *)
(* record builder) and app.py (the snapshot aggregator, the query router   *)
(* respond, and the refresh of the classifier artifacts).                  *)
(*                                                                         *)
(* Text is held as follows.  A Python dict is a record whose DOMAIN is     *)
(* the set of keys present.  A status, title or id is a string; the        *)
(* character-level conversions (strip, lower, replace) are tables over     *)
(* the strings the model's inputs use.  A query is the sequence of its     *)
(* whitespace-separated words, a trailing "?" being a word of its own.     *)
(***************************************************************************)
EXTENDS Integers, Sequences, FiniteSets, TLC

VARIABLES
    report,         \* the JSON document behind GITHUB_JSON_URL
    tests,          \* the value of the last _normalize_tests(report) call: its entries in dict order
    snap,           \* the value of the last get_snapshot() call
    npc,            \* which of the two pure calls have been made on the report
    chat,           \* the value of the gr.Chatbot component: a list of {role, content}
    rpc,            \* where the running respond call is
    user_text,      \* respond's argument user_text
    history_msgs,   \* respond's argument history_msgs
    trace,          \* the stages the running respond call has entered, in order
    fetches,        \* the fetch_data calls the running respond call has made
    conf,           \* respond's local conf, in hundredths (-1: none)
    pred,           \* respond's local pred (-1: none)
    seen,           \* the generation of each artifact the running respond call has read
    nq,             \* the queries submitted so far
    model,          \* app.py's global model
    vectorizer,     \* app.py's global vectorizer
    answers,        \* app.py's global answers
    disk,           \* the files model.pkl, vectorizer.pkl, answers.pkl
    fpc,            \* where the running do_refresh call is
    refresh_status, \* the value of the refresh_status component
    nrefresh        \* the refreshes started so far

-----------------------------------------------------------------------------
(* dict and string helpers *)

Has(d, k) == k \in DOMAIN d

\* d.get(k) for a string-valued key, the absent key and None read as ""
GetStr(d, k) == IF Has(d, k) THEN d[k] ELSE ""

\* d.get(k, []) for a list-valued key
GetList(d, k) == IF Has(d, k) THEN d[k] ELSE <<>>

\* Python's  a or b  on strings
Or(a, b) == IF a # "" THEN a ELSE b

\* str.strip() on the strings of the model
Strip(s) ==
    CASE s = " Login " -> "Login"
      [] s = " "       -> ""
      [] s = " passed" -> "passed"
      [] OTHER         -> s

-----------------------------------------------------------------------------
(* train_model.py: status normalisation *)

FAIL_STATUSES == {"failed", "timedout", "timed_out", "interrupted"}
PASS_STATUSES == {"passed"}
SKIP_STATUSES == {"skipped"}

\* s.strip().lower().replace(" ", "").replace("-", "").replace("_", "")
Squash(s) ==
    CASE s = "timedOut"      -> "timedout"
      [] s = "TimedOut"      -> "timedout"
      [] s = "timed-out"     -> "timedout"
      [] s = "timed_out"     -> "timedout"
      [] s = "Passed"        -> "passed"
      [] s = " passed"       -> "passed"
      [] s = "FAILED"        -> "failed"
      [] s = "expected-fail" -> "expectedfail"
      [] s = " "             -> ""
      [] OTHER               -> s

status_str(s) ==
    IF s = "" THEN "unknown"
    ELSE LET q == Squash(s) IN
         CASE q \in {"timedout", "timeout", "timedouterror"} -> "timedout"
           [] q \in {"pass", "ok", "success"}                -> "passed"
           [] q \in {"skip", "skipping"}                     -> "skipped"
           [] q \in {"fail", "error"}                        -> "failed"
           [] OTHER                                          -> q

-----------------------------------------------------------------------------
(* train_model.py: the attempt reconciler.  Only the status of an attempt   *)
(* is kept: duration_ms and errors are copied by the code and read nowhere. *)

AttemptKeys == <<"retries", "attempts", "results">>

\* the first of retries, attempts, results that is a non-empty list
FirstAttemptKey(test) ==
    LET present == {i \in 1..Len(AttemptKeys) :
                      Has(test, AttemptKeys[i]) /\ Len(test[AttemptKeys[i]]) > 0}
    IN IF present = {} THEN ""
       ELSE AttemptKeys[CHOOSE i \in present : \A j \in present : i <= j]

FillUnknown(a) == IF a.status = "" THEN [a EXCEPT !.status = "unknown"] ELSE a

attempts_from_test(test) ==
    LET key == FirstAttemptKey(test)
        fromArr ==
            [i \in 1..Len(test[key]) |->
                [status |-> status_str(Or(Or(GetStr(test[key][i], "status"),
                                             GetStr(test[key][i], "outcome")),
                                          GetStr(test, "status")))]]
        own == <<[status |-> Or(status_str(Or(GetStr(test, "status"),
                                               GetStr(test, "outcome"))),
                                "unknown")]>>
        attempts == IF key # "" THEN fromArr ELSE own
    IN [i \in 1..Len(attempts) |-> FillUnknown(attempts[i])]

-----------------------------------------------------------------------------
(* train_model.py: the report walker *)

RECURSIVE SpecTests(_, _)
\* for spec in suite.get("specs", []): for test in spec.get("tests", [])
SpecTests(suite_title, specs) ==
    IF Len(specs) = 0 THEN <<>>
    ELSE LET spec == Head(specs)
             spec_title == Or(GetStr(spec, "title"), GetStr(spec, "file"))
             ts == GetList(spec, "tests")
         IN [i \in 1..Len(ts) |->
                [suite |-> suite_title, spec |-> spec_title, test |-> ts[i]]]
            \o SpecTests(suite_title, Tail(specs))

RECURSIVE iter_suite(_)
RECURSIVE IterSuites(_)

IterSuites(suites) ==
    IF Len(suites) = 0 THEN <<>>
    ELSE iter_suite(Head(suites)) \o IterSuites(Tail(suites))

iter_suite(suite) ==
    LET suite_title == Or(Or(GetStr(suite, "title"), GetStr(suite, "name")),
                          GetStr(suite, "file"))
        direct == GetList(suite, "tests")
    IN SpecTests(suite_title, GetList(suite, "specs"))
       \o [i \in 1..Len(direct) |->
              [suite |-> suite_title, spec |-> suite_title, test |-> direct[i]]]
       \o IterSuites(GetList(suite, "suites"))

RECURSIVE ResultTests(_)
\* the fallback reporters' layout: for r in data.get("results", [])
ResultTests(results) ==
    IF Len(results) = 0 THEN <<>>
    ELSE LET r == Head(results)
             suite_title == IF Has(r, "suite")
                            THEN Or(GetStr(r.suite, "title"), GetStr(r.suite, "name"))
                            ELSE ""
             spec_title == Or(GetStr(r, "file"), GetStr(r, "title"))
             ts == GetList(r, "tests")
         IN [i \in 1..Len(ts) |->
                [suite |-> suite_title, spec |-> spec_title, test |-> ts[i]]]
            \o ResultTests(Tail(results))

walk_playwright(data) ==
    IF Has(data, "suites") THEN IterSuites(data.suites)
    ELSE ResultTests(GetList(data, "results"))

guess_project(test) ==
    Or(Or(Or(GetStr(test, "projectName"), GetStr(test, "project")),
          GetStr(test, "projectId")),
       "default")

-----------------------------------------------------------------------------
(* train_model.py: the test record builder *)

\* any(a["status"] in FAIL_STATUSES for a in attempts)
FailedOnce(attempts) == \E i \in 1..Len(attempts) : attempts[i].status \in FAIL_STATUSES

\* a plausible slip: every test with a failed attempt called flaky
IsFlakyAnyFailure(failed_once, final_status) == failed_once

\* is_flaky = failed_once and (final_status in PASS_STATUSES)
IsFlaky(failed_once, final_status) == failed_once /\ final_status \in PASS_STATUSES

\* test.get("id") or f"{suite_title}::{spec_title}::{title}::{project}"
TestId(node) ==
    IF GetStr(node.test, "id") # "" THEN <<node.test.id>>
    ELSE <<node.suite, node.spec, GetStr(node.test, "title"), guess_project(node.test)>>

TestRecord(node) ==
    LET attempts == attempts_from_test(node.test)
        final_status == IF Len(attempts) > 0 THEN attempts[Len(attempts)].status
                        ELSE "unknown"
        failed_once == FailedOnce(attempts)
    IN [suite        |-> Or(node.suite, "Unknown suite"),
        spec         |-> Or(node.spec, "Unknown spec"),
        title        |-> Or(GetStr(node.test, "title"), "Unknown test"),
        project      |-> guess_project(node.test),
        attempts     |-> attempts,
        final_status |-> final_status,
        failed_once  |-> failed_once,
        is_flaky     |-> IsFlaky(failed_once, final_status)]

\* out[test_id] = {...} on a dict held as its entries in insertion order:
\* an existing key keeps its place and takes the new value
DictSet(out, k, v) ==
    IF \E i \in 1..Len(out) : out[i].key = k
    THEN [i \in 1..Len(out) |-> IF out[i].key = k THEN [key |-> k, val |-> v] ELSE out[i]]
    ELSE Append(out, [key |-> k, val |-> v])

RECURSIVE NormalizeFrom(_, _)
NormalizeFrom(out, nodes) ==
    IF Len(nodes) = 0 THEN out
    ELSE NormalizeFrom(DictSet(out, TestId(Head(nodes)), TestRecord(Head(nodes))),
                       Tail(nodes))

normalize_tests(data) == NormalizeFrom(<<>>, walk_playwright(data))

\* iter(normalized.values())
iter_tests_with_attempts(data) ==
    LET normalized == normalize_tests(data)
    IN [i \in 1..Len(normalized) |-> normalized[i].val]

-----------------------------------------------------------------------------
(* app.py: normalisation helpers *)

PASS == {"passed"}
SKIP == {"skipped"}
FAIL == {"failed", "timedout", "timed_out", "interrupted"}
KNOWN == PASS \cup SKIP \cup FAIL \cup {"unknown"}

\* s.strip().lower().replace(" ", "").replace("-", "_")
NormSquash(s) ==
    CASE s = "timedOut"      -> "timedout"
      [] s = "TimedOut"      -> "timedout"
      [] s = "timed-out"     -> "timed_out"
      [] s = "Passed"        -> "passed"
      [] s = " passed"       -> "passed"
      [] s = "FAILED"        -> "failed"
      [] s = "expected-fail" -> "expected_fail"
      [] s = " "             -> ""
      [] OTHER               -> s

\* return s if s in KNOWN else s
norm_status(s) ==
    IF s = "" THEN "unknown"
    ELSE LET q == NormSquash(s) IN IF q \in KNOWN THEN q ELSE q

\* (s or "").strip() or default
safe(s, default) == Or(Strip(s), default)

-----------------------------------------------------------------------------
(* app.py: get_snapshot, after its fetch has returned data *)

CountKeys == {"passed", "failed", "skipped", "flaky", "unknown"}

ZeroCounts == [k \in CountKeys |-> 0]

\* d[key] = d.get(key, 0) + 1
Inc(d, key) ==
    IF key \in DOMAIN d THEN [d EXCEPT ![key] = @ + 1]
    ELSE [k \in DOMAIN d \cup {key} |-> IF k = key THEN 1 ELSE d[k]]

\* key = "flaky" if is_flaky else (final_status or "unknown")
CountKey(is_flaky, final_status) ==
    IF is_flaky THEN "flaky" ELSE Or(final_status, "unknown")

\* a plausible slip: a flaky record counted under flaky and under its status too
TallyAdditive(counts, is_flaky, final_status) ==
    IF is_flaky THEN Inc(Inc(counts, "flaky"), Or(final_status, "unknown"))
    ELSE Inc(counts, Or(final_status, "unknown"))

\* totals[key] = totals.get(key, 0) + 1, and the same on per_suite[sname]
Tally(counts, is_flaky, final_status) ==
    Inc(counts, CountKey(is_flaky, final_status))

DictHas(d, k) == \E i \in 1..Len(d) : d[i].key = k

DictGet(d, k) == d[CHOOSE i \in 1..Len(d) : d[i].key = k].val

\* per_suite.setdefault(sname, {...zeros...})
SetDefault(d, k, v) == IF DictHas(d, k) THEN d ELSE Append(d, [key |-> k, val |-> v])

EmptySnapshot ==
    [totals             |-> ZeroCounts,
     per_suite          |-> <<>>,
     passed_tests       |-> <<>>,
     failed_tests       |-> <<>>,
     flaky_tests        |-> <<>>,
     failed_once_names  |-> <<>>]

\* the body of  for t in tests
SnapshotStep(s, t) ==
    LET name == safe(Or(t.title, t.spec), "Unnamed test")
        sname == safe(t.suite, "Unknown suite")
        fs0 == norm_status(t.final_status)
        final_status ==
            IF fs0 = ""
            THEN norm_status(IF Len(t.attempts) > 0
                             THEN t.attempts[Len(t.attempts)].status ELSE "")
            ELSE fs0
        is_flaky == t.is_flaky
        failed_once == t.failed_once
        suites == SetDefault(s.per_suite, sname, ZeroCounts)
        label == <<name, sname>>
    IN [totals    |-> Tally(s.totals, is_flaky, final_status),
        per_suite |-> DictSet(suites, sname,
                              Tally(DictGet(suites, sname), is_flaky, final_status)),
        passed_tests |-> IF final_status \in PASS
                         THEN Append(s.passed_tests, label) ELSE s.passed_tests,
        failed_tests |-> IF final_status \notin PASS /\ final_status \in FAIL
                         THEN Append(s.failed_tests, label) ELSE s.failed_tests,
        flaky_tests  |-> IF is_flaky THEN Append(s.flaky_tests, label) ELSE s.flaky_tests,
        failed_once_names |-> IF failed_once
                              THEN Append(s.failed_once_names, label)
                              ELSE s.failed_once_names]

RECURSIVE SnapshotFrom(_, _)
SnapshotFrom(s, ts) ==
    IF Len(ts) = 0 THEN s ELSE SnapshotFrom(SnapshotStep(s, Head(ts)), Tail(ts))

\* use_rich holds: train_model defines iter_tests_with_attempts
get_snapshot(data) == SnapshotFrom(EmptySnapshot, iter_tests_with_attempts(data))

RECURSIVE SumOver(_, _)
SumOver(d, keys) ==
    IF keys = {} THEN 0
    ELSE LET k == CHOOSE x \in keys : TRUE IN d[k] + SumOver(d, keys \ {k})

\* sum(totals.values())
SumValues(d) == SumOver(d, DOMAIN d)

-----------------------------------------------------------------------------
(* app.py: text of a query.  The words of a query are separated by single   *)
(* spaces; a "?" word is written directly after the word before it.         *)

\* str.lower() on the words of the model
LowerWord(w) ==
    CASE w = "Hello"  -> "hello"
      [] w = "Good"   -> "good"
      [] w = "How"    -> "how"
      [] w = "Failed" -> "failed"
      [] w = "Login"  -> "login"
      [] w = "Tests"  -> "tests"
      [] OTHER        -> w

Lower(words) == [i \in 1..Len(words) |-> LowerWord(words[i])]

\* the words of msg from position i on begin with the words of pat
StartsAt(msg, i, pat) ==
    /\ i >= 1
    /\ i + Len(pat) - 1 <= Len(msg)
    /\ \A j \in 1..Len(pat) : msg[i + j - 1] = pat[j]

WordAt(msg, i, S) == i >= 1 /\ i <= Len(msg) /\ msg[i] \in S

DayParts == {"morning", "afternoon", "evening"}

GREETING_REPLY == [kind |-> "greeting"]

\* re.search(pattern, text.lower()): hi|hello|hey, gm, gn, gd <part>,
\* good <part|night>, how are you, how r u
is_greeting(text) ==
    LET t == Lower(text) IN
    \E i \in 1..Len(t) :
        \/ t[i] \in {"hi", "hello", "hey", "gm", "gn"}
        \/ t[i] = "gd" /\ WordAt(t, i + 1, DayParts)
        \/ t[i] = "good" /\ WordAt(t, i + 1, DayParts \cup {"night"})
        \/ StartsAt(t, i, <<"how", "are", "you">>)
        \/ StartsAt(t, i, <<"how", "r", "u">>)

\* re.fullmatch(r"(?i)(tests?|results?)\??", text)
IsVague(text) ==
    LET t == Lower(text) IN
    /\ Len(t) \in {1, 2}
    /\ t[1] \in {"test", "tests", "result", "results"}
    /\ Len(t) = 2 => t[2] = "?"

StatusWords == {"passed", "failed", "skipped", "flaky"}
TestWords == {"test", "tests"}
ListVerbs == {"list", "show", "which"}

\* (how many|count|number of) matched at word i: the number of words it takes, or 0
HeadLenAt(msg, i) ==
    IF StartsAt(msg, i, <<"how", "many">>) THEN 2
    ELSE IF StartsAt(msg, i, <<"count">>) THEN 1
    ELSE IF StartsAt(msg, i, <<"number", "of">>) THEN 2
    ELSE 0

\* (how many|count|number of)\s+(tests?\s+)?(passed|failed|skipped|flaky)\b
\* matched from word i: the place of the status word, or 0
StatusPosAt(msg, i) ==
    LET h == HeadLenAt(msg, i) IN
    IF h = 0 THEN 0
    ELSE IF WordAt(msg, i + h, TestWords) /\ WordAt(msg, i + h + 1, StatusWords)
         THEN i + h + 1
    ELSE IF WordAt(msg, i + h, StatusWords) THEN i + h
    ELSE 0

\* re.search takes the leftmost match
Leftmost(S) == CHOOSE i \in S : \A j \in S : i <= j

CountStarts(msg) == {i \in 1..Len(msg) : StatusPosAt(msg, i) # 0}

\* ... \s+in\s+(.+) after the status word
SuiteStarts(msg) ==
    {i \in CountStarts(msg) :
        /\ WordAt(msg, StatusPosAt(msg, i) + 1, {"in"})
        /\ StatusPosAt(msg, i) + 2 <= Len(msg)
        /\ msg[StatusPosAt(msg, i) + 2] # "?"}

\* (how many|count|number of)\s+(tests?)\b
TotalStarts(msg) ==
    {i \in 1..Len(msg) : HeadLenAt(msg, i) # 0
                         /\ WordAt(msg, i + HeadLenAt(msg, i), TestWords)}

\* \b(any\s+)?flaky tests?\b|\bflaky\?\b : the second alternative needs a word
\* character directly after the "?", which no query of the model has
MatchFlaky(msg) ==
    \E i \in 1..Len(msg) : msg[i] = "flaky" /\ WordAt(msg, i + 1, TestWords)

\* \b(list|show|which)\b.*\b(<one of phrases>)\b
MatchList(msg, phrases) ==
    \E i \in 1..Len(msg) : \E j \in (i + 1)..Len(msg) :
        msg[i] \in ListVerbs /\ \E p \in phrases : StartsAt(msg, j, p)

FailedPhrases == {<<"failed", "tests">>, <<"tests", "that", "failed">>, <<"failures">>}

FailedOncePhrases ==
    {<<"failed", "at", "least", "once">>, <<"failed", "on", "retry">>,
     <<"failed", "during", "retry">>, <<"failed", "once">>}

PassedPhrases == {<<"passed", "tests">>, <<"tests", "that", "passed">>}

\* the characters of a word or title; one outside the table is one symbol
Chars(w) ==
    CASE w = "login"         -> <<"l", "o", "g", "i", "n">>
      [] w = "Login"         -> <<"L", "o", "g", "i", "n">>
      [] w = "Checkout"      -> <<"C", "h", "e", "c", "k", "o", "u", "t">>
      [] w = "out"           -> <<"o", "u", "t">>
      [] w = "o"             -> <<"o">>
      [] w = "cart"          -> <<"c", "a", "r", "t">>
      [] w = "Unknown suite" ->
            <<"U", "n", "k", "n", "o", "w", "n", " ", "s", "u", "i", "t", "e">>
      [] OTHER               -> <<w>>

LowerChar(c) ==
    CASE c = "L" -> "l" [] c = "C" -> "c" [] c = "U" -> "u" [] OTHER -> c

LowerChars(cs) == [i \in 1..Len(cs) |-> LowerChar(cs[i])]

RECURSIVE JoinWords(_)
\* the characters of words written with single spaces between them
JoinWords(words) ==
    IF Len(words) = 0 THEN <<>>
    ELSE IF Len(words) = 1 THEN Chars(words[1])
    ELSE Chars(words[1]) \o <<" ">> \o JoinWords(Tail(words))

\* needle in hay
Contains(hay, needle) ==
    \E i \in 0..(Len(hay) - Len(needle)) : SubSeq(hay, i + 1, i + Len(needle)) = needle

\* m.group(4).strip().strip("?")
SuiteQuery(msg, p) ==
    LET rest == SubSeq(msg, p + 2, Len(msg))
    IN IF rest[Len(rest)] = "?" THEN SubSeq(rest, 1, Len(rest) - 1) ELSE rest

ListCap == 50
FailedOnceCap == 100

Min(a, b) == IF a <= b THEN a ELSE b

\* "\n".join(f"- {t}" for t in xs[:cap]) and the "... and N more." tail
Listing(kind, xs, cap) ==
    [kind  |-> kind,
     items |-> SubSeq(xs, 1, Min(Len(xs), cap)),
     more  |-> IF Len(xs) <= cap THEN 0 ELSE Len(xs) - cap]

None == [kind |-> "None"]

\* "<n> tests <what>."
CountReply(s, what) == [kind |-> "count", n |-> s.totals[what], what |-> what]

\* "In '<suite>': <n> tests <what>."  or  "I couldn't find a suite matching ..."
SuiteReply(s, what, suite_query) ==
    LET candidates == {i \in 1..Len(s.per_suite) :
                         Contains(LowerChars(Chars(s.per_suite[i].key)),
                                  LowerChars(JoinWords(suite_query)))}
    IN IF candidates = {}
       THEN [kind |-> "no_suite", query |-> suite_query]
       ELSE [kind  |-> "suite_count",
             suite |-> s.per_suite[Leftmost(candidates)].key,
             n     |-> s.per_suite[Leftmost(candidates)].val[what],
             what  |-> what]

\* the rules of handle_aggregate_intents in the order of the code, on the
\* snapshot s its get_snapshot() call returned
handle_aggregate_intents(message, s) ==
    LET msg == Lower(message) IN
    IF MatchFlaky(msg)
    THEN IF s.totals["flaky"] = 0 THEN [kind |-> "no_flaky"]
         ELSE [kind  |-> "flaky_list", n |-> s.totals["flaky"],
               items |-> SubSeq(s.flaky_tests, 1, Min(Len(s.flaky_tests), ListCap)),
               more  |-> IF Len(s.flaky_tests) <= ListCap THEN 0
                         ELSE Len(s.flaky_tests) - ListCap]
    ELSE IF CountStarts(msg) # {}
    THEN CountReply(s, msg[StatusPosAt(msg, Leftmost(CountStarts(msg)))])
    ELSE IF TotalStarts(msg) # {}
    THEN [kind    |-> "total", total |-> SumValues(s.totals),
          passed  |-> s.totals["passed"], failed |-> s.totals["failed"],
          skipped |-> s.totals["skipped"], flaky |-> s.totals["flaky"]]
    ELSE IF MatchList(msg, FailedPhrases)
    THEN IF Len(s.failed_tests) = 0 THEN [kind |-> "no_failed"]
         ELSE Listing("failed_final", s.failed_tests, ListCap)
    ELSE IF MatchList(msg, FailedOncePhrases)
    THEN IF Len(s.failed_once_names) = 0 THEN [kind |-> "none_failed_once"]
         ELSE Listing("failed_once", s.failed_once_names, FailedOnceCap)
    ELSE IF MatchList(msg, PassedPhrases)
    THEN IF Len(s.passed_tests) = 0 THEN [kind |-> "no_passed"]
         ELSE Listing("passed_list", s.passed_tests, ListCap)
    ELSE IF SuiteStarts(msg) # {}
    THEN LET p == StatusPosAt(msg, Leftmost(SuiteStarts(msg)))
         IN SuiteReply(s, msg[p], SuiteQuery(msg, p))
    ELSE None

\* the lines of _short_help on the snapshot its get_snapshot() call returned
short_help(s) ==
    [kind    |-> "help", total |-> SumValues(s.totals),
     passed  |-> s.totals["passed"], failed |-> s.totals["failed"],
     skipped |-> s.totals["skipped"], flaky |-> s.totals["flaky"]]

\* history + [{"role": "user", ...}, {"role": "assistant", ...}]
append_exchange(history, user_msg, assistant_msg) ==
    history \o <<[role |-> "user", content |-> [kind |-> "text", words |-> user_msg]],
                 [role |-> "assistant", content |-> assistant_msg]>>

-----------------------------------------------------------------------------
(* The reports the model draws from *)

MaxTests == 2

TestNodes ==
    { [title |-> "a", status |-> "passed"],
      [title |-> "b", results |-> <<[status |-> "failed"], [status |-> "passed"]>>],
      [title |-> "c", results |-> <<[status |-> "failed"], [status |-> "FAILED"]>>],
      [title |-> "d", results |-> <<[status |-> "passed"], [status |-> "timedOut"]>>],
      [title |-> "e", status |-> "skipped", projectName |-> "firefox"],
      [id |-> "t1", title |-> "a", status |-> "passed"],
      [id |-> "t1", title |-> "f",
       results |-> <<[status |-> "interrupted"], [outcome |-> "ok"]>>],
      [title |-> "g", retries |-> <<[status |-> "passed"]>>,
       results |-> <<[status |-> "failed"]>>],
      [title |-> "h"],
      [title |-> "i", status |-> "failed", attempts |-> <<[duration |-> "5"]>>],
      [status |-> "expected-fail"] }

SeqsUpTo(S, n) == UNION { [1..k -> S] : k \in 0..n }

\* suites -> specs -> tests
ShapeSpecs(ts) ==
    [suites |-> <<[title |-> "Login",
                   specs |-> <<[title |-> "login.spec", tests |-> ts]>>]>>]

\* tests directly under a suite, and a child suite under "suites"
ShapeNested(ts) ==
    [suites |-> <<[title |-> "Checkout",
                   tests |-> SubSeq(ts, 1, Len(ts) \div 2),
                   suites |-> <<[name |-> " Login ",
                                 specs |-> <<[file |-> "x.spec",
                                              tests |-> SubSeq(ts, Len(ts) \div 2 + 1,
                                                               Len(ts))]>>]>>]>>]

\* the alternate top-level results layout
ShapeResults(ts) ==
    [results |-> <<[suite |-> [title |-> "Login"], file |-> "login.spec", tests |-> ts]>>]

\* no titles anywhere
ShapeUntitled(ts) == [suites |-> <<[specs |-> <<[tests |-> ts]>>]>>]

\* neither suites nor results
NoReport == [config |-> "playwright.config"]

Reports ==
    {NoReport} \cup
    UNION { {ShapeSpecs(ts), ShapeNested(ts), ShapeResults(ts), ShapeUntitled(ts)} :
            ts \in SeqsUpTo(TestNodes, MaxTests) }

\* the reports behind the URL while queries are answered: suite Login with two
\* failed tests and one passed, beside an empty suite; suite Checkout with one
\* flaky test and one timed out; no tests at all
LoginReport ==
    [suites |->
        <<[title |-> "Login",
           specs |-> <<[title |-> "login.spec",
                        tests |-> <<[title |-> "x", status |-> "failed"],
                                    [title |-> "y", results |-> <<[status |-> "failed"]>>],
                                    [title |-> "z", status |-> "passed"]>>]>>],
          [title |-> "Checkout", specs |-> <<[title |-> "cart.spec"]>>]>>]

FlakyReport ==
    [suites |->
        <<[title |-> "Checkout",
           specs |-> <<[title |-> "cart.spec",
                        tests |-> <<[title |-> "shows error on bad password",
                                     results |-> <<[status |-> "failed"],
                                                   [status |-> "passed"]>>],
                                    [title |-> "d",
                                     results |-> <<[status |-> "timedOut"]>>]>>]>>]>>]

RouterReports == {LoginReport, FlakyReport, NoReport}

\* the queries a user sends
Queries ==
    { <<"Hello">>,
      <<"say", "hello", "to", "failures">>,
      <<"Tests", "?">>,
      <<"any", "flaky", "tests", "?">>,
      <<"how", "many", "tests", "passed", "?">>,
      <<"how", "many", "Failed", "in", "Login">>,
      <<"count", "tests", "failed", "in", "out", "?">>,
      <<"how", "many", "tests">>,
      <<"list", "failed", "tests">>,
      <<"list", "tests", "that", "failed", "at", "least", "once">>,
      <<"show", "failed", "once">>,
      <<"which", "tests", "that", "passed">>,
      <<"did", "x", "fail", "?">> }

\* the scores predict_proba gives its best class, in hundredths: one below the
\* threshold and the threshold itself
ConfLevels == {30, 45}

\* the classes argmax may pick, of a model with n classes: the first, the last
PredChoices(n) == {0, n - 1}

\* if conf < 0.45
ConfThreshold == 45

MaxQueries == 1
MaxRefresh == 1
InitTests == 1

-----------------------------------------------------------------------------
(* State *)

normVars == <<tests, snap, npc>>
respVars == <<chat, rpc, nq, user_text, history_msgs, trace, fetches, conf, pred, seen>>
artVars == <<model, vectorizer, answers>>
refVars == <<disk, fpc, refresh_status, nrefresh>>
vars == <<report, tests, snap, npc, chat, rpc, nq, user_text, history_msgs, trace,
          fetches, conf, pred, seen, model, vectorizer, answers, disk, fpc,
          refresh_status, nrefresh>>

NotRead == [vectorizer |-> -1, model |-> -1, answers |-> -1]

\* A trained artifact: the retraining that wrote it (gen), and what the query
\* path reads of it: the number of classes of the model, whether the model has
\* predict_proba, the length of the answers list.
ModelFile(g, n, p) == [gen |-> g, classes |-> n, proba |-> p]
VectorizerFile(g) == [gen |-> g]
AnswersFile(g, n) == [gen |-> g, len |-> n]

\* model = None, vectorizer = None, answers = None
NoArtifact == [gen |-> -1]

\* the state after app.py is imported: load_artifacts() has run on the files
\* an earlier train_bot() left (its model, a MultinomialNB, has predict_proba)
InitApp ==
    /\ chat = <<>>
    /\ rpc = "idle"
    /\ nq = 0
    /\ user_text = <<>>
    /\ history_msgs = <<>>
    /\ trace = <<>>
    /\ fetches = 0
    /\ conf = -1
    /\ pred = -1
    /\ seen = NotRead
    /\ disk = [model      |-> ModelFile(0, 3 * InitTests, TRUE),
               vectorizer |-> VectorizerFile(0),
               answers    |-> AnswersFile(0, 3 * InitTests)]
    /\ model = disk.model
    /\ vectorizer = disk.vectorizer
    /\ answers = disk.answers
    /\ fpc = "idle"
    /\ refresh_status = ""
    /\ nrefresh = 0

InitPure ==
    /\ tests = <<>>
    /\ snap = EmptySnapshot
    /\ npc = [normalized |-> FALSE, aggregated |-> FALSE]

-----------------------------------------------------------------------------
(* The two pure calls applied to a report *)

InitNorm ==
    /\ report \in Reports
    /\ InitPure
    /\ InitApp

\* _normalize_tests(data)
NormalizeTests ==
    /\ ~npc.normalized
    /\ tests' = normalize_tests(report)
    /\ npc' = [npc EXCEPT !.normalized = TRUE]
    /\ UNCHANGED <<report, snap, respVars, artVars, refVars>>

\* get_snapshot() with a fetch that returns the report
GetSnapshot ==
    /\ ~npc.aggregated
    /\ snap' = get_snapshot(report)
    /\ npc' = [npc EXCEPT !.aggregated = TRUE]
    /\ UNCHANGED <<report, tests, respVars, artVars, refVars>>

NextNorm == NormalizeTests \/ GetSnapshot

SpecNorm == InitNorm /\ [][NextNorm]_vars

-----------------------------------------------------------------------------
(* app.py: respond, stage by stage.  fetch_data either returns the report   *)
(* or raises (a transport error, a status other than 200).                  *)

ErrorReply(exc) == [kind |-> "error", exc |-> exc]

\* return updated, gr.update(value="")
Return(reply) ==
    /\ chat' = append_exchange(history_msgs, user_text, reply)
    /\ rpc' = "done"

\* the user sends a query: Gradio calls respond(msg, chat)
Submit ==
    /\ rpc \in {"idle", "done", "raised"}
    /\ nq < MaxQueries
    /\ \E q \in Queries : user_text' = q
    /\ history_msgs' = chat
    /\ nq' = nq + 1
    /\ rpc' = "greeting"
    /\ trace' = <<>>
    /\ fetches' = 0
    /\ conf' = -1
    /\ pred' = -1
    /\ seen' = NotRead
    /\ UNCHANGED <<report, normVars, chat, artVars, refVars>>

\* a plausible slip: the greeting branch without its return
GreetingCheckFallsThrough ==
    /\ rpc = "greeting"
    /\ trace' = Append(trace, "greeting")
    /\ rpc' = "vague"
    /\ chat' = IF is_greeting(user_text)
               THEN append_exchange(history_msgs, user_text, GREETING_REPLY)
               ELSE chat
    /\ UNCHANGED <<report, normVars, nq, user_text, history_msgs, fetches, conf, pred,
                   seen, artVars, refVars>>

\* 0) Greetings first
GreetingCheck ==
    /\ rpc = "greeting"
    /\ trace' = Append(trace, "greeting")
    /\ IF is_greeting(user_text)
       THEN Return(GREETING_REPLY)
       ELSE rpc' = "vague" /\ UNCHANGED chat
    /\ UNCHANGED <<report, normVars, nq, user_text, history_msgs, fetches, conf, pred,
                   seen, artVars, refVars>>

\* 1) Too vague -> quick snapshot; _short_help() is called outside any try
VagueCheck ==
    /\ rpc = "vague"
    /\ trace' = Append(trace, "vague")
    /\ IF IsVague(user_text)
       THEN \E fetched \in BOOLEAN :
              /\ fetches' = fetches + 1
              /\ IF fetched
                 THEN Return(short_help(get_snapshot(report)))
                 ELSE rpc' = "raised" /\ UNCHANGED chat
       ELSE rpc' = "aggregate" /\ UNCHANGED <<chat, fetches>>
    /\ UNCHANGED <<report, normVars, nq, user_text, history_msgs, conf, pred, seen,
                   artVars, refVars>>

\* 2) Aggregate intents, in try ... except Exception: pass
AggregateIntents ==
    /\ rpc = "aggregate"
    /\ trace' = Append(trace, "aggregate")
    /\ fetches' = fetches + 1
    /\ \E fetched \in BOOLEAN :
         IF fetched /\ handle_aggregate_intents(user_text, get_snapshot(report)) # None
         THEN Return(handle_aggregate_intents(user_text, get_snapshot(report)))
         ELSE rpc' = "fallback" /\ UNCHANGED chat
    /\ UNCHANGED <<report, normVars, nq, user_text, history_msgs, conf, pred, seen,
                   artVars, refVars>>

\* 3) if model is None or vectorizer is None or answers is None: raise
FallbackCheck ==
    /\ rpc = "fallback"
    /\ trace' = Append(trace, "fallback")
    /\ IF NoArtifact \in {model, vectorizer, answers}
       THEN Return(ErrorReply("RuntimeError"))
       ELSE rpc' = "transform" /\ UNCHANGED chat
    /\ UNCHANGED <<report, normVars, nq, user_text, history_msgs, fetches, conf, pred,
                   seen, artVars, refVars>>

\* X = vectorizer.transform([text])
FallbackTransform ==
    /\ rpc = "transform"
    /\ seen' = [seen EXCEPT !.vectorizer = vectorizer.gen]
    /\ rpc' = "predict"
    /\ UNCHANGED <<report, normVars, chat, nq, user_text, history_msgs, trace, fetches,
                   conf, pred, artVars, refVars>>

\* hasattr(model, "predict_proba"), model.predict_proba(X)[0], model.classes_[idx];
\* or model.predict(X)[0].  The classifier may raise.  The reads of the global
\* model on these lines are taken as one read.
FallbackPredict ==
    /\ rpc = "predict"
    /\ seen' = [seen EXCEPT !.model = model.gen]
    /\ \E raised \in BOOLEAN :
         IF raised
         THEN Return(ErrorReply("ClassifierError")) /\ UNCHANGED <<conf, pred>>
         ELSE /\ \E p \in PredChoices(model.classes) : pred' = p
              /\ IF model.proba THEN \E c \in ConfLevels : conf' = c ELSE conf' = -1
              /\ rpc' = "answer"
              /\ UNCHANGED chat
    /\ UNCHANGED <<report, normVars, nq, user_text, history_msgs, trace, fetches,
                   artVars, refVars>>

\* reply = answers[pred]; if conf < 0.45: reply = _short_help(); all of it in
\* try ... except Exception as e: reply = f"Error answering your question: ..."
FallbackAnswer ==
    /\ rpc = "answer"
    /\ seen' = [seen EXCEPT !.answers = answers.gen]
    /\ IF pred >= answers.len
       THEN Return(ErrorReply("IndexError")) /\ UNCHANGED fetches
       ELSE IF conf # -1 /\ conf < ConfThreshold
       THEN \E fetched \in BOOLEAN :
              /\ fetches' = fetches + 1
              /\ IF fetched
                 THEN Return(short_help(get_snapshot(report)))
                 ELSE Return(ErrorReply("RuntimeError"))
       ELSE /\ Return([kind |-> "canned", key |-> pred, gen |-> answers.gen])
            /\ UNCHANGED fetches
    /\ UNCHANGED <<report, normVars, nq, user_text, history_msgs, trace, conf, pred,
                   artVars, refVars>>

-----------------------------------------------------------------------------
(* app.py: do_refresh, and train_model.train_bot *)

\* train_model.train_bot(): fetch, three questions per test, ValueError when
\* there is none, fit, dump the three files.  Its exception ends do_refresh.
TrainBot ==
    /\ fpc = "idle"
    /\ nrefresh < MaxRefresh
    /\ nrefresh' = nrefresh + 1
    /\ \E fetched \in BOOLEAN :
         LET n == 3 * Len(iter_tests_with_attempts(report)) IN
         IF fetched /\ n > 0
         THEN /\ disk' = [model      |-> ModelFile(nrefresh + 1, n, TRUE),
                          vectorizer |-> VectorizerFile(nrefresh + 1),
                          answers    |-> AnswersFile(nrefresh + 1, n)]
              /\ fpc' = "load_model"
              /\ UNCHANGED refresh_status
         ELSE /\ refresh_status' = "Refresh failed"
              /\ UNCHANGED <<disk, fpc>>
    /\ UNCHANGED <<report, normVars, respVars, artVars>>

\* load_artifacts(): model = joblib.load(MODEL_PATH)
LoadModel ==
    /\ fpc = "load_model"
    /\ model' = disk.model
    /\ fpc' = "load_vectorizer"
    /\ UNCHANGED <<report, normVars, respVars, vectorizer, answers, disk,
                   refresh_status, nrefresh>>

\* vectorizer = joblib.load(VECTORIZER_PATH)
LoadVectorizer ==
    /\ fpc = "load_vectorizer"
    /\ vectorizer' = disk.vectorizer
    /\ fpc' = "load_answers"
    /\ UNCHANGED <<report, normVars, respVars, model, answers, disk,
                   refresh_status, nrefresh>>

\* answers = joblib.load(ANSWERS_PATH); return "Refreshed: ..."
LoadAnswers ==
    /\ fpc = "load_answers"
    /\ answers' = disk.answers
    /\ fpc' = "idle"
    /\ refresh_status' = "Refreshed"
    /\ UNCHANGED <<report, normVars, respVars, model, vectorizer, disk, nrefresh>>

-----------------------------------------------------------------------------

Init ==
    /\ report \in RouterReports
    /\ InitPure
    /\ InitApp

Next ==
    \/ Submit
    \/ GreetingCheck
    \/ VagueCheck
    \/ AggregateIntents
    \/ FallbackCheck
    \/ FallbackTransform
    \/ FallbackPredict
    \/ FallbackAnswer
    \/ TrainBot
    \/ LoadModel
    \/ LoadVectorizer
    \/ LoadAnswers

Spec == Init /\ [][Next]_vars

-----------------------------------------------------------------------------
(* Properties of the test record builder and of the aggregator, under       *)
(* SpecNorm                                                                 *)

Records == [i \in 1..Len(tests) |-> tests[i].val]

\* C3: if the walker yields N leaf test nodes, normalization produces exactly
\* N test records, one per node, also when two nodes share an id or the same
\* (suite title, spec title, title, project)
C3_OneRecordPerNode ==
    npc.normalized => Len(tests) = Len(walk_playwright(report))

\* C4: after get_snapshot the counts of totals sum to the number of test
\* records the snapshot was built from
C4_TotalsSumToRecords ==
    npc.aggregated =>
        SumValues(snap.totals) = Len(iter_tests_with_attempts(report))

C4_Witness ==
    /\ npc.aggregated
    /\ Len(iter_tests_with_attempts(report)) >= 2
    /\ snap.totals["flaky"] >= 1
    /\ DOMAIN snap.totals # CountKeys

\* the category the spec gives a record: flaky first, then a final status of
\* passed, failed or skipped, and unknown for every other final status
Category(r) ==
    IF r.is_flaky THEN "flaky"
    ELSE IF r.final_status \in {"passed", "failed", "skipped"} THEN r.final_status
    ELSE "unknown"

\* C5: each record is counted under exactly one category, chosen by that
\* precedence, so the keys of totals and of every per-suite mapping stay within
\* {passed, failed, skipped, flaky, unknown}
C5_ClosedCategories ==
    npc.aggregated =>
        LET recs == iter_tests_with_attempts(report) IN
        /\ DOMAIN snap.totals \subseteq CountKeys
        /\ \A i \in 1..Len(snap.per_suite) :
              DOMAIN snap.per_suite[i].val \subseteq CountKeys
        /\ \A k \in CountKeys :
              snap.totals[k] = Cardinality({i \in 1..Len(recs) : Category(recs[i]) = k})

\* C6: a record is flaky iff some attempt has status failed, timedout or
\* interrupted and the last attempt's status is passed; and a flaky record is
\* never counted under failed in totals
C6_FlakyIffFailedThenPassed ==
    /\ npc.normalized =>
         \A i \in 1..Len(Records) :
            LET r == Records[i]
                someFailed == \E j \in 1..Len(r.attempts) :
                                 r.attempts[j].status \in {"failed", "timedout", "interrupted"}
            IN /\ r.failed_once = someFailed
               /\ r.final_status = r.attempts[Len(r.attempts)].status
               /\ r.is_flaky = (someFailed /\ r.final_status = "passed")
    /\ npc.aggregated =>
         LET recs == iter_tests_with_attempts(report) IN
         snap.totals["failed"] =
            Cardinality({i \in 1..Len(recs) :
                            ~recs[i].is_flaky /\ recs[i].final_status = "failed"})

C6_Witness ==
    /\ npc.normalized
    /\ npc.aggregated
    /\ \E i \in 1..Len(Records) : Records[i].is_flaky
    /\ \E i \in 1..Len(Records) :
          Records[i].failed_once /\ Records[i].final_status = "failed"
    /\ snap.totals["flaky"] = 1
    /\ snap.totals["failed"] = 1

-----------------------------------------------------------------------------
(* Properties of respond and do_refresh, under Spec *)

LastReply == chat[Len(chat)].content

StageOrder == <<"greeting", "vague", "aggregate", "fallback">>

\* the respond call returned and its answer came from the deterministic rules
AnsweredByRules == rpc = "done" /\ Len(trace) = 3

\* C1: a query '(how many|count|number of) [tests] <status> in <suite text>'
\* is answered by the suite-scoped rule: "In '<suite>': <n> tests <status>."
\* when a known suite title contains the suite text, and never the report-wide
\* "<n> tests <status>."
C1_SuiteScopedAnswer ==
    LET msg == Lower(user_text)
        p == StatusPosAt(msg, 1)
        expected == SuiteReply(get_snapshot(report), msg[p], SuiteQuery(msg, p))
    IN (AnsweredByRules /\ 1 \in SuiteStarts(msg)) =>
          /\ LastReply.kind # "count"
          /\ expected.kind = "suite_count" => LastReply = expected

\* C2: respond always ends by returning the history extended with an answer;
\* no exception propagates out of it, in any stage
C2_NoExceptionEscapes == rpc # "raised"

\* C7: when the classifier gives a confidence score for a query that reached
\* it, a score below 0.45 is answered with the snapshot/help text, and a score
\* of 0.45 or more with the canned answer of the predicted key
C7_ConfidenceGate ==
    (rpc = "done" /\ Len(trace) = 4 /\ conf # -1) =>
        IF conf < ConfThreshold
        THEN LastReply.kind = "help"
        ELSE LastReply.kind = "canned" /\ LastReply.key = pred

\* C8: the classifier stage of a query uses a model, a vectorizer and an
\* answer table of one generation, also while a refresh runs
C8_SameGeneration ==
    \A a, b \in {"vectorizer", "model", "answers"} :
        (seen[a] # -1 /\ seen[b] # -1) => seen[a] = seen[b]

\* C9: the stages run in the order greeting, vague, aggregate, fallback; the
\* first that produces an answer ends the query with exactly one exchange
\* appended; a greeting gets the fixed greeting, no fetch, no classifier
C9_StagesShortCircuit ==
    /\ Len(trace) <= Len(StageOrder)
    /\ trace = SubSeq(StageOrder, 1, Len(trace))
    /\ (rpc # "idle" /\ is_greeting(user_text)) =>
          /\ Len(trace) <= 1
          /\ fetches = 0
          /\ seen = NotRead
    /\ rpc = "done" =>
          /\ chat = append_exchange(history_msgs, user_text, LastReply)
          /\ is_greeting(user_text) =>
                trace = <<"greeting">> /\ LastReply = GREETING_REPLY
          /\ (~is_greeting(user_text) /\ IsVague(user_text)) =>
                trace = <<"greeting", "vague">> /\ LastReply.kind = "help"
          /\ Len(trace) = 3 =>
                /\ LastReply = handle_aggregate_intents(user_text, get_snapshot(report))
                /\ LastReply # None
                /\ seen = NotRead
          /\ Len(trace) = 4 => LastReply.kind \in {"canned", "help", "error"}

C9_Witness ==
    /\ rpc = "done"
    /\ is_greeting(user_text)
    /\ report = LoginReport
    /\ trace = <<"greeting">>
    /\ Len(chat) = 2
    /\ LastReply = GREETING_REPLY

\* C10: every query the failed-at-least-once pattern matches, the help text's
\* 'list tests that failed at least once' among them, is answered by the rules
\* with the failed-at-least-once list or its 'No tests failed during retries'
\* message, not with the final-failures list
C10_FailedOnceRule ==
    (AnsweredByRules /\ MatchList(Lower(user_text), FailedOncePhrases)) =>
        LastReply.kind \in {"failed_once", "none_failed_once"}

=============================================================================
